---- MODULE Spec2Model ----
(***************************************************************************)
(* Model of rlog.py: the record parser (read_file), the record filter      *)
(* (filter_detail), the per-file summary index (init_index) and the /logs  *)
(* query (logs / generate_logs).                                           *)
(*                                                                         *)
(* A line of text is a sequence of one-character strings.  The header      *)
(* pattern, str.strip and datetime.fromisoformat are computed on those     *)
(* characters.                                                             *)
(***************************************************************************)
EXTENDS Integers, Sequences, FiniteSets, TLC

(***************************************************************************)
(* Characters                                                              *)
(***************************************************************************)
\* Python's None.  The values that may be None are strings, lists, dicts,
\* datetimes and objects; the empty ones among them are false like None.
None == <<>>

Digits == {"0", "1", "2", "3", "4", "5", "6", "7", "8", "9"}

DigitVal ==
  [c \in Digits |->
     CASE c = "0" -> 0 [] c = "1" -> 1 [] c = "2" -> 2 [] c = "3" -> 3
       [] c = "4" -> 4 [] c = "5" -> 5 [] c = "6" -> 6 [] c = "7" -> 7
       [] c = "8" -> 8 [] c = "9" -> 9]

Letters ==
  {"a", "b", "c", "d", "e", "f", "g", "h", "i", "j", "k", "l", "m",
   "n", "o", "p", "q", "r", "s", "t", "u", "v", "w", "x", "y", "z",
   "A", "B", "C", "D", "E", "F", "G", "H", "I", "J", "K", "L", "M",
   "N", "O", "P", "Q", "R", "S", "T", "U", "V", "W", "X", "Y", "Z"}

Alnum == Letters \cup Digits

Space == {" ", "\t", "\n", "\r"}

\* [A-Za-z0-9]
IsAlnum(c) == c \in Alnum

\* \s, and the characters str.strip() removes
IsSpace(c) == c \in Space

\* \d
IsDigit(c) == c \in Digits

\* [A-Za-z0-9\s_\-!@#$%^&*()_+|<?.:=\[\],]
ThreadChars ==
  Alnum \cup Space \cup
  {"_", "-", "!", "@", "#", "$", "%", "^", "&", "*", "(", ")",
   "+", "|", "<", "?", ".", ":", "=", "[", "]", ","}

IsThreadChar(c) == c \in ThreadChars

Min(a, b) == IF a <= b THEN a ELSE b

Max(a, b) == IF a >= b THEN a ELSE b

SetMax(S) == CHOOSE x \in S : \A y \in S : y <= x

SetMin(S) == CHOOSE x \in S : \A y \in S : x <= y

(***************************************************************************)
(* The header pattern (re.compile at module level) and pattern.match(line) *)
(***************************************************************************)
\* every character of s[a..b] satisfies the class test
AllIn(s, a, b, Test(_)) == \A i \in a..b : Test(s[i])

\* \d{2}-\d{2}\s\d{2}:\d{2}:\d{2}\.\d+ starting at position p: the position
\* of its last character (\d+ is greedy and is followed by "]"), or 0
TimestampEnd(s, p) ==
  IF /\ p + 15 <= Len(s)
     /\ IsDigit(s[p]) /\ IsDigit(s[p + 1]) /\ s[p + 2] = "-"
     /\ IsDigit(s[p + 3]) /\ IsDigit(s[p + 4]) /\ IsSpace(s[p + 5])
     /\ IsDigit(s[p + 6]) /\ IsDigit(s[p + 7]) /\ s[p + 8] = ":"
     /\ IsDigit(s[p + 9]) /\ IsDigit(s[p + 10]) /\ s[p + 11] = ":"
     /\ IsDigit(s[p + 12]) /\ IsDigit(s[p + 13]) /\ s[p + 14] = "."
     /\ IsDigit(s[p + 15])
  THEN SetMax({q \in (p + 15)..Len(s) : AllIn(s, p + 15, q, IsDigit)})
  ELSE 0

\* (.*)$ starting at position p: "." matches anything but a newline and "$"
\* matches at the end of the string or before its final newline.  The
\* position of the last character of the group, or -1 when there is no match.
ContentEnd(s, p) ==
  LET n == Len(s)
      last == IF n >= p /\ s[n] = "\n" THEN n - 1 ELSE n
  IN  IF \A i \in p..last : s[i] # "\n" THEN last ELSE -1

\* ,(timestamp)\]:(.*)$ with the comma at position c
TailMatches(s, c) ==
  /\ c <= Len(s)
  /\ s[c] = ","
  /\ LET q == TimestampEnd(s, c + 1)
     IN  /\ q # 0
         /\ q + 2 <= Len(s)
         /\ s[q + 1] = "]"
         /\ s[q + 2] = ":"
         /\ ContentEnd(s, q + 3) # -1

\* pattern.match(line): None, or the groups (1, 2, 3, 4).  The engine
\* backtracks: the level is as long as possible, then the whitespace after it
\* is as long as possible, then the thread is as short as possible.
match(s) ==
  LET n == Len(s)
      lead == Cardinality({i \in 1..n : AllIn(s, 1, i, IsSpace)})
      a == lead + 2
      threadEnds(e2) ==
        {e3 \in (e2 + 1)..n :
           TailMatches(s, e3 + 1) /\ AllIn(s, e2 + 1, e3, IsThreadChar)}
      levelEnds == {e1 \in a..n : AllIn(s, a, e1, IsAlnum)}
      pairs ==
        {p \in levelEnds \X (a..n) :
           /\ p[1] <= p[2]
           /\ AllIn(s, p[1] + 1, p[2], IsSpace)
           /\ threadEnds(p[2]) # {}}
  IN  IF lead + 1 > n \/ s[lead + 1] # "[" \/ pairs = {}
      THEN None
      ELSE LET e1 == SetMax({p[1] : p \in pairs})
               e2 == SetMax({p[2] : p \in {r \in pairs : r[1] = e1}})
               e3 == SetMin(threadEnds(e2))
               q == TimestampEnd(s, e3 + 2)
           IN  [lv |-> SubSeq(s, a, e1),
                thread |-> SubSeq(s, e2 + 1, e3),
                dt |-> SubSeq(s, e3 + 2, q),
                content |-> SubSeq(s, q + 3, ContentEnd(s, q + 3))]

\* str.strip()
strip(s) ==
  LET keep == {i \in 1..Len(s) : ~IsSpace(s[i])}
  IN  IF keep = {} THEN <<>> ELSE SubSeq(s, SetMin(keep), SetMax(keep))

(***************************************************************************)
(* The lines the log files of the model are made of                        *)
(***************************************************************************)
\* a header line: level I, thread w, 1 January, content x
LineA ==
  <<"[", "I", " ", "w", ",", "0", "1", "-", "0", "1", " ", "0", "0", ":", "0", "0", ":", "0", "0", ".", "0",
    "]", ":", "x", "\n">>

\* a header line: thread wv, 2 January, empty content
LineB ==
  <<"[", "I", " ", "w", "v", ",", "0", "1", "-", "0", "2", " ", "0", "0", ":", "0", "0", ":", "0", "0", ".", "0",
    "]", ":", "\n">>

\* a header line behind leading whitespace
LineIndented ==
  <<" ", " ", "[", "I", " ", "w", ",", "0", "1", "-", "0", "2", " ", "0", "0", ":", "0", "0", ":", "0", "0", ".", "5",
    "]", ":", " ", "x", "\n">>

\* a header line whose timestamp exists in leap years only
LineLeapDay ==
  <<"[", "I", " ", "w", ",", "0", "2", "-", "2", "9", " ", "0", "0", ":", "0", "0", ":", "0", "0", ".", "0",
    "]", ":", "x", "\n">>

\* a header line that ends the file without a newline
LineNoNewline ==
  <<"[", "I", " ", "w", ",", "0", "1", "-", "0", "1", " ", "0", "0", ":", "0", "0", ":", "0", "0", ".", "0",
    "]", ":", "x">>

\* a header line whose thread holds a closing bracket and a comma
LineBracketComma ==
  <<"[", "I", " ", "w", "]", ",", "v", ",", "0", "1", "-", "0", "1", " ", "0", "0", ":", "0", "0", ":", "0", "0", ".", "0",
    "]", ":", "x", "\n">>

\* a line that is not a header
LineText ==
  <<" ", "x", "\n">>

Lines ==
  {LineA, LineB, LineIndented, LineLeapDay, LineNoNewline, LineBracketComma,
   LineText}

\* pattern.match on the lines of the model, evaluated once per line
pattern == [line \in Lines |-> match(line)]

(***************************************************************************)
(* datetime: a value is <<year, month, day, hour, minute, second, usec>>   *)
(***************************************************************************)
IsLeap(y) == (y % 4 = 0 /\ y % 100 # 0) \/ y % 400 = 0

DaysInMonth(y, m) ==
  CASE m \in {1, 3, 5, 7, 8, 10, 12} -> 31
    [] m \in {4, 6, 9, 11} -> 30
    [] m = 2 -> IF IsLeap(y) THEN 29 ELSE 28
    [] OTHER -> 0

TwoDigits(s, p) == 10 * DigitVal[s[p]] + DigitVal[s[p + 1]]

\* the fraction of a second, in microseconds: the first six digits, padded
Micros(s, p) ==
  LET d(i) == IF p + i <= Len(s) THEN DigitVal[s[p + i]] ELSE 0
  IN  100000 * d(0) + 10000 * d(1) + 1000 * d(2) + 100 * d(3) + 10 * d(4) + d(5)

\* datetime.fromisoformat(f"{year}-{dt}") for a dt captured by group 3 of the
\* pattern: the datetime, or None when it raises ValueError
fromisoformat(year, dt) ==
  LET mo == TwoDigits(dt, 1)
      d == TwoDigits(dt, 4)
      h == TwoDigits(dt, 7)
      mi == TwoDigits(dt, 10)
      sec == TwoDigits(dt, 13)
  IN  IF /\ mo \in 1..12
         /\ d \in 1..DaysInMonth(year, mo)
         /\ h \in 0..23
         /\ mi \in 0..59
         /\ sec \in 0..59
      THEN <<year, mo, d, h, mi, sec, Micros(dt, 16)>>
      ELSE None

\* a < b on datetimes
DtLess(a, b) ==
  \E i \in 1..7 : a[i] < b[i] /\ \A j \in 1..(i - 1) : a[j] = b[j]

(***************************************************************************)
(* Regular expressions of the filter.  A compiled pattern is its source    *)
(* text; the patterns of the model are literal characters with an optional *)
(* final "$".                                                              *)
(***************************************************************************)
PatLiteral(pat) ==
  IF Len(pat) > 0 /\ pat[Len(pat)] = "$" THEN SubSeq(pat, 1, Len(pat) - 1) ELSE pat

PatDollar(pat) == Len(pat) > 0 /\ pat[Len(pat)] = "$"

\* the pattern matches s starting at position p ("$": at the end of s, or
\* before a newline that ends s)
MatchAt(pat, s, p) ==
  LET lit == PatLiteral(pat)
      e == p + Len(lit) - 1
  IN  /\ e <= Len(s)
      /\ SubSeq(s, p, e) = lit
      /\ PatDollar(pat) => (e = Len(s) \/ (e = Len(s) - 1 /\ s[Len(s)] = "\n"))

\* pat.match(s) is not None
re_match(pat, s) == MatchAt(pat, s, 1)

\* pat.search(s) is not None
re_search(pat, s) == \E p \in 1..(Len(s) + 1) : MatchAt(pat, s, p)

\* bool(v)
Truthy(v) == v # None

(***************************************************************************)
(* Detail and filter_detail                                                *)
(***************************************************************************)
Detail(filename, level, thread, dt, content, raw) ==
  [filename |-> filename, level |-> level, thread |-> thread, dt |-> dt,
   content |-> content, raw |-> raw]

to_dict(d) ==
  [level |-> d.level, thread |-> d.thread, timestamp |-> d.dt, raw |-> d.raw]

\* outcome of a call: a returned value or a raised exception
Return(v) == [raised |-> FALSE, value |-> v]

Raise(e) == [raised |-> TRUE, exc |-> e]

\* filter_detail with an absent content pattern treated as a pattern that is
\* not found
filter_detail_content_required(d, args) ==
  IF Truthy(args.level)
  THEN Raise("AttributeError")
  ELSE Return(
         /\ Truthy(args.thread) =>
              \E i \in 1..Len(args.thread) : re_match(args.thread[i], d.thread)
         /\ Truthy(args.start_time) => ~DtLess(d.dt, args.start_time)
         /\ Truthy(args.end_time) => ~DtLess(args.end_time, d.dt)
         /\ Truthy(args.content) /\ re_search(args.content, d.content))

\* filter_detail with "<=" and ">=" in the time tests
filter_detail_exclusive_window(d, args) ==
  IF Truthy(args.level)
  THEN Raise("AttributeError")
  ELSE Return(
         /\ Truthy(args.thread) =>
              \E i \in 1..Len(args.thread) : re_match(args.thread[i], d.thread)
         /\ Truthy(args.start_time) => DtLess(args.start_time, d.dt)
         /\ Truthy(args.end_time) => DtLess(d.dt, args.end_time)
         /\ Truthy(args.content) => re_search(args.content, d.content))

\* filter_detail with all() in place of any() over the thread patterns
filter_detail_every_thread(d, args) ==
  IF Truthy(args.level)
  THEN Raise("AttributeError")
  ELSE Return(
         /\ Truthy(args.thread) =>
              \A i \in 1..Len(args.thread) : re_match(args.thread[i], d.thread)
         /\ Truthy(args.start_time) => ~DtLess(d.dt, args.start_time)
         /\ Truthy(args.end_time) => ~DtLess(args.end_time, d.dt)
         /\ Truthy(args.content) => re_search(args.content, d.content))

\* Detail has no attribute "lv": the level test raises as soon as a level is
\* given
filter_detail(d, args) ==
  IF Truthy(args.level)
  THEN Raise("AttributeError")
  ELSE Return(
         /\ Truthy(args.thread) =>
              \E i \in 1..Len(args.thread) : re_match(args.thread[i], d.thread)
         /\ Truthy(args.start_time) => ~DtLess(d.dt, args.start_time)
         /\ Truthy(args.end_time) => ~DtLess(args.end_time, d.dt)
         /\ Truthy(args.content) => re_search(args.content, d.content))

(***************************************************************************)
(* State                                                                   *)
(***************************************************************************)
VARIABLES
  fs,                  \* the log files: path -> [lines, repeat, readable], the
                       \* text of a file being its lines written repeat times
  year,                \* datetime.now().year
  search_index,        \* the global search_index
  pc,                  \* where the process stands: "boot" before init_index,
                       \* "idle" between requests, "logs" when the view of
                       \* /logs has returned its response, "logs_again" when
                       \* it has returned it a second time, "crashed" after
                       \* an exception out of init_index; "start" and "done"
                       \* around list(read_file(...)) and "list" within it
                       \* when it is run step by step; "filter" and
                       \* "filtered" around a call of filter_detail
  caller,              \* who iterates read_file: "list", "init_index", "logs"
  files,               \* read_file: the files argument
  include_dt,          \* read_file: the include_dt argument (as a boolean)
  fidx,                \* read_file: position in files of the current file
  lidx,                \* read_file: position in the file of the next line
  handles,             \* the paths read_file holds open
  detail,              \* read_file: the record under construction
  should_concat_line,  \* read_file: should_concat_line
  rpc,                 \* read_file: where the generator stands
  index,               \* init_index: the index under construction
  reqargs,             \* logs: the Namespace built from the request
  result_count,        \* generate_logs: result_count
  out,                 \* what the caller has collected from the loop
  exc,                 \* the exception that ended the call, or "" for none
  resp,                \* the response of /logs to the request, or what
                       \* filter_detail returned
  writes               \* how many times the log files have been changed

vars ==
  <<fs, year, search_index, pc, caller, files, include_dt, fidx, lidx, handles,
    detail, should_concat_line, rpc, index, reqargs, result_count,
    out, exc, resp, writes>>

readerVars ==
  <<files, include_dt, fidx, lidx, handles, detail, should_concat_line, rpc>>

callerVars == <<index, reqargs, result_count, out>>

envVars == <<fs, year, writes>>

(***************************************************************************)
(* read_file and the loops that consume it.  A run of                      *)
(* "for detail in read_file(files, include_dt): body" is a value: the      *)
(* locals of the generator, the locals of the caller that the body changes *)
(* and the exception raised, if any.                                       *)
(***************************************************************************)
\* the number of lines of a log file, its i-th line, and all its lines
NumLines(p) == Len(fs[p].lines) * fs[p].repeat

LineAt(p, i) == fs[p].lines[((i - 1) % Len(fs[p].lines)) + 1]

FileLines(p) == [i \in 1..NumLines(p) |-> LineAt(p, i)]

\* StartReadFile with detail a global that outlives the call
StartReadFile_stale_detail(fileList, dt) ==
  [files |-> fileList, include_dt |-> dt, fidx |-> 1, lidx |-> 1,
   handles |-> {}, detail |-> detail, should_concat_line |-> FALSE,
   rpc |-> "for_file", index |-> <<>>, result_count |-> 0, out |-> <<>>,
   exc |-> ""]

\* calling read_file(files, include_dt) creates the generator; its body runs
\* from "detail = None" when the caller's for loop first asks for a value.
\* The caller enters the loop with an empty index / result_count = 0 / an
\* empty list.
StartReadFile(fileList, dt) ==
  [files |-> fileList, include_dt |-> dt, fidx |-> 1, lidx |-> 1,
   handles |-> {}, detail |-> None, should_concat_line |-> FALSE,
   rpc |-> "for_file", index |-> <<>>, result_count |-> 0, out |-> <<>>,
   exc |-> ""]

\* index_entry that sets max_datetime only once
index_entry_keeps_first_max(ix, d) ==
  LET e0 == IF d.filename \in DOMAIN ix
            THEN ix[d.filename]
            ELSE [min_datetime |-> None, max_datetime |-> None, thread |-> {}]
      e1 == IF e0.min_datetime = None \/ DtLess(d.dt, e0.min_datetime)
            THEN [e0 EXCEPT !.min_datetime = d.dt] ELSE e0
      e2 == IF e1.max_datetime = None
            THEN [e1 EXCEPT !.max_datetime = d.dt] ELSE e1
  IN  [e2 EXCEPT !.thread = @ \cup {d.thread}]

\* the body of the loop that consumes read_file, run on a yielded Detail:
\* what it leaves in the caller's variables and how it leaves the loop
\* ("continue", "break" or "raise")
index_entry(ix, d) ==
  LET e0 == IF d.filename \in DOMAIN ix
            THEN ix[d.filename]
            ELSE [min_datetime |-> None, max_datetime |-> None, thread |-> {}]
      e1 == IF e0.min_datetime = None \/ DtLess(d.dt, e0.min_datetime)
            THEN [e0 EXCEPT !.min_datetime = d.dt] ELSE e0
      e2 == IF e1.max_datetime = None \/ DtLess(e1.max_datetime, d.dt)
            THEN [e1 EXCEPT !.max_datetime = d.dt] ELSE e1
  IN  [e2 EXCEPT !.thread = @ \cup {d.thread}]

init_index_body(ix, d) ==
  [p \in DOMAIN ix \cup {d.filename} |->
     IF p = d.filename THEN index_entry(ix, d) ELSE ix[p]]

\* result_count > 1000
ResultCap == 1000

\* generate_logs_body with "result_count >= 1000"
generate_logs_body_off_by_one(d, args, count, collected) ==
  LET r == filter_detail(d, args)
  IN  IF r.raised
      THEN [ctl |-> "raise", exc |-> r.exc, result_count |-> count, out |-> collected]
      ELSE IF ~r.value
      THEN [ctl |-> "continue", exc |-> "", result_count |-> count, out |-> collected]
      ELSE IF ~(Truthy(args.start_time) /\ Truthy(args.end_time)) /\ count + 1 >= ResultCap
      THEN [ctl |-> "break", exc |-> "", result_count |-> count + 1, out |-> collected]
      ELSE [ctl |-> "continue", exc |-> "", result_count |-> count + 1,
            out |-> Append(collected, to_dict(d))]

\* generate_logs_body with the cap applied whatever the time window
generate_logs_body_always_capped(d, args, count, collected) ==
  LET r == filter_detail(d, args)
  IN  IF r.raised
      THEN [ctl |-> "raise", exc |-> r.exc, result_count |-> count, out |-> collected]
      ELSE IF ~r.value
      THEN [ctl |-> "continue", exc |-> "", result_count |-> count, out |-> collected]
      ELSE IF count + 1 > ResultCap
      THEN [ctl |-> "break", exc |-> "", result_count |-> count + 1, out |-> collected]
      ELSE [ctl |-> "continue", exc |-> "", result_count |-> count + 1,
            out |-> Append(collected, to_dict(d))]

\* the body of "for detail in read_file(...)" in generate_logs
generate_logs_body(d, args, count, collected) ==
  LET r == filter_detail(d, args)
  IN  IF r.raised
      THEN [ctl |-> "raise", exc |-> r.exc, result_count |-> count, out |-> collected]
      ELSE IF ~r.value
      THEN [ctl |-> "continue", exc |-> "", result_count |-> count, out |-> collected]
      ELSE IF ~(Truthy(args.start_time) /\ Truthy(args.end_time)) /\ count + 1 > ResultCap
      THEN [ctl |-> "break", exc |-> "", result_count |-> count + 1, out |-> collected]
      ELSE [ctl |-> "continue", exc |-> "", result_count |-> count + 1,
            out |-> Append(collected, to_dict(d))]

\* the loop body of the caller who ("list": list(read_file(...)) appends)
LoopBody(s, who, args, d) ==
  CASE who = "list" ->
         [ctl |-> "continue", exc |-> "", index |-> s.index,
          result_count |-> s.result_count, out |-> Append(s.out, d)]
    [] who = "init_index" ->
         [ctl |-> "continue", exc |-> "", index |-> init_index_body(s.index, d),
          result_count |-> s.result_count, out |-> s.out]
    [] who = "logs" ->
         LET b == generate_logs_body(d, args, s.result_count, s.out)
         IN  [ctl |-> b.ctl, exc |-> b.exc, index |-> s.index,
              result_count |-> b.result_count, out |-> b.out]

\* "if detail: yield detail": the loop body runs on the record under
\* construction, if there is one, before the generator is resumed
Yield(s, who, args) ==
  IF s.detail # None
  THEN LoopBody(s, who, args, s.detail)
  ELSE [ctl |-> "continue", exc |-> "", index |-> s.index,
        result_count |-> s.result_count, out |-> s.out]

\* materialize_dt with the ValueError swallowed: the text is kept
materialize_dt_swallow(include, yr, dt) ==
  IF include /\ fromisoformat(yr, dt) # None THEN fromisoformat(yr, dt) ELSE dt

\* "if include_dt: dt = datetime.fromisoformat(f"{year}-{dt}")": the value of
\* dt afterwards, None when fromisoformat raises
materialize_dt(include, yr, dt) ==
  IF include THEN fromisoformat(yr, dt) ELSE dt

\* "detail = Detail(file, lv, thread, dt, content, line.strip())"
NewDetail(file, m, dt, line) ==
  Detail(file, m.lv, m.thread, dt, m.content, strip(line))

\* "detail.content += line; detail.raw += line"
ConcatLine(d, line) ==
  [d EXCEPT !.content = @ \o line, !.raw = @ \o line]

\* OpenFile without "should_concat_line = False"
OpenFile_keeps_concat(s) ==
  LET file == s.files[s.fidx]
  IN  IF fs[file].readable
      THEN [s EXCEPT !.handles = @ \cup {file}, !.lidx = 1, !.rpc = "for_line"]
      ELSE [s EXCEPT !.rpc = "raised", !.exc = "OSError"]

\* "for file in files[:]" enters the next file: should_concat_line = False,
\* then file.open(); a file that cannot be opened raises OSError
OpenFile(s) ==
  LET file == s.files[s.fidx]
  IN  IF fs[file].readable
      THEN [s EXCEPT !.should_concat_line = FALSE, !.handles = @ \cup {file},
                     !.lidx = 1, !.rpc = "for_line"]
      ELSE [s EXCEPT !.should_concat_line = FALSE, !.rpc = "raised",
                     !.exc = "OSError"]

\* one iteration of "for line in f".  A header line first yields the record
\* under construction to the caller, whose loop body runs before the
\* generator is resumed; then the new record is built.
ReadLine(s, who, args) ==
  LET file == s.files[s.fidx]
      line == LineAt(file, s.lidx)
      m == pattern[line]
  IN  IF m # None
      THEN LET b == Yield(s, who, args)
               dt == materialize_dt(s.include_dt, year, m.dt)
               t == [s EXCEPT !.index = b.index, !.result_count = b.result_count,
                              !.out = b.out]
           IN  IF b.ctl # "continue"
               THEN \* the caller left the loop: the generator is closed where
                    \* it is suspended, which leaves the with block
                    [t EXCEPT !.rpc = "closed", !.exc = b.exc,
                              !.handles = @ \ {file}]
               ELSE IF dt = None
               THEN \* fromisoformat raises ValueError
                    [t EXCEPT !.rpc = "raised", !.exc = "ValueError",
                              !.handles = @ \ {file}, !.detail = None]
               ELSE [t EXCEPT !.detail = NewDetail(file, m, dt, line),
                              !.should_concat_line = TRUE, !.lidx = @ + 1]
      ELSE [s EXCEPT !.detail = IF s.detail # None /\ s.should_concat_line
                                THEN ConcatLine(s.detail, line)
                                ELSE s.detail,
                     !.lidx = @ + 1]

\* CloseFile without the with block: the file stays open
CloseFile_leaves_open(s) ==
  [s EXCEPT !.fidx = @ + 1, !.rpc = "for_file"]

\* "for line in f" is exhausted: the with block closes the file and the outer
\* loop moves to the next file
CloseFile(s) ==
  [s EXCEPT !.handles = @ \ {s.files[s.fidx]}, !.fidx = @ + 1,
            !.rpc = "for_file"]

\* Exhaust without the final "if detail: yield detail"
Exhaust_drops_last(s, who, args) ==
  [s EXCEPT !.rpc = "returned"]

\* after the last file: "if detail: yield detail", then the generator returns
Exhaust(s, who, args) ==
  LET b == Yield(s, who, args)
  IN  [s EXCEPT !.index = b.index, !.result_count = b.result_count,
                !.out = b.out,
                !.rpc = IF b.ctl = "continue" THEN "returned" ELSE "closed",
                !.exc = b.exc]

\* one step of the run: the statement the generator stands at; a generator
\* that has returned, raised or been closed stays as it is
Step(s, who, args) ==
  CASE s.rpc = "for_file" /\ s.fidx <= Len(s.files) -> OpenFile(s)
    [] s.rpc = "for_file" /\ s.fidx > Len(s.files) -> Exhaust(s, who, args)
    [] s.rpc = "for_line" /\ s.lidx <= NumLines(s.files[s.fidx]) ->
         ReadLine(s, who, args)
    [] s.rpc = "for_line" /\ s.lidx > NumLines(s.files[s.fidx]) -> CloseFile(s)
    [] OTHER -> s

RECURSIVE Iterate(_, _, _, _)
\* n steps of the run (a step leaves a stopped run as it is): the first half
\* of the steps, then the other half from the run m they lead to
Iterate(s, who, args, n) ==
  IF n <= 1
  THEN Step(s, who, args)
  ELSE CHOOSE r \in {Iterate(m, who, args, n - (n \div 2)) :
                       m \in {Iterate(s, who, args, n \div 2)}} : TRUE

\* the steps a run over the files takes at most: one per line, two per file
\* (open, close) and the final yield
StepsOf(fileList) ==
  LET total[i \in 0..Len(fileList)] ==
        IF i = 0 THEN 1 ELSE total[i - 1] + NumLines(fileList[i]) + 2
  IN  total[Len(fileList)]

\* "for detail in read_file(files, include_dt): body", run until the generator
\* returns, raises or is closed
read_file(fileList, dt, who, args) ==
  Iterate(StartReadFile(fileList, dt), who, args, StepsOf(fileList))

\* no loop over read_file is running
NoRun == [StartReadFile(<<>>, FALSE) EXCEPT !.rpc = "none"]

\* the run as it is left in the process
SetRun(s) ==
  /\ files' = s.files
  /\ include_dt' = s.include_dt
  /\ fidx' = s.fidx
  /\ lidx' = s.lidx
  /\ handles' = s.handles
  /\ detail' = s.detail
  /\ should_concat_line' = s.should_concat_line
  /\ rpc' = s.rpc
  /\ index' = s.index
  /\ result_count' = s.result_count
  /\ out' = s.out
  /\ exc' = s.exc

(***************************************************************************)
(* The callers of read_file                                                *)
(***************************************************************************)
Paths == {1, 2}

\* path_to_files: the log files, sorted by path
path_to_files ==
  CHOOSE s \in [1..Cardinality(Paths) -> Paths] :
    \A i, j \in DOMAIN s : i < j => s[i] < s[j]

\* list(read_file(files, include_dt))
CallReadFile(dt) ==
  /\ pc = "start"
  /\ pc' = "done"
  /\ caller' = "list"
  /\ \E s \in {read_file(path_to_files, dt, "list", None)} : SetRun(s)
  /\ UNCHANGED <<envVars, search_index, reqargs, resp>>

\* the run the process is in
Run ==
  [files |-> files, include_dt |-> include_dt, fidx |-> fidx, lidx |-> lidx,
   handles |-> handles, detail |-> detail,
   should_concat_line |-> should_concat_line, rpc |-> rpc, index |-> index,
   result_count |-> result_count, out |-> out, exc |-> exc]

\* list(read_file(files, include_dt)) statement by statement: the call,
StartList(dt) ==
  /\ pc = "start"
  /\ pc' = "list"
  /\ caller' = "list"
  /\ SetRun(StartReadFile(path_to_files, dt))
  /\ UNCHANGED <<envVars, search_index, reqargs, resp>>

\* one step of the generator,
StepList ==
  /\ pc = "list"
  /\ rpc \in {"for_file", "for_line"}
  /\ \E s \in {Step(Run, "list", None)} : SetRun(s)
  /\ UNCHANGED <<envVars, search_index, pc, caller, reqargs, resp>>

\* and the end of the call, when the generator has returned or raised
ListDone ==
  /\ pc = "list"
  /\ rpc \in {"returned", "raised", "closed"}
  /\ pc' = "done"
  /\ UNCHANGED <<envVars, search_index, caller, readerVars, callerVars, exc, resp>>

\* init_index: the loop over read_file(files, include_dt=True), then
\* search_index = index and app.run serves requests; an exception out of
\* init_index ends the process
InitIndex ==
  /\ pc = "boot"
  /\ caller' = "init_index"
  /\ \E s \in {read_file(path_to_files, TRUE, "init_index", None)} :
         /\ SetRun(s)
         /\ IF s.exc = ""
            THEN search_index' = s.index /\ pc' = "idle"
            ELSE search_index' = search_index /\ pc' = "crashed"
  /\ UNCHANGED <<envVars, reqargs, resp>>

\* "if not search_index": the index is None or an empty dict
IndexFound == Truthy(search_index)

\* filter_file that also drops a file whose span only touches the window
filter_file_exclusive(file, args) ==
  IF file \notin DOMAIN search_index
  THEN TRUE
  ELSE LET ix == search_index[file]
       IN  /\ Truthy(args.thread) =>
                \E thread \in ix.thread :
                  \E i \in 1..Len(args.thread) : re_match(args.thread[i], thread)
           /\ ~(Truthy(args.start_time) /\ ~DtLess(args.start_time, ix.max_datetime))
           /\ ~(Truthy(args.end_time) /\ ~DtLess(ix.min_datetime, args.end_time))

\* filter_file without the thread test
filter_file_times_only(file, args) ==
  IF file \notin DOMAIN search_index
  THEN TRUE
  ELSE LET ix == search_index[file]
       IN  /\ ~(Truthy(args.start_time) /\ DtLess(ix.max_datetime, args.start_time))
           /\ ~(Truthy(args.end_time) /\ DtLess(args.end_time, ix.min_datetime))

\* generate_logs.filter_file
filter_file(file, args) ==
  IF file \notin DOMAIN search_index
  THEN TRUE
  ELSE LET ix == search_index[file]
       IN  /\ Truthy(args.thread) =>
                \E thread \in ix.thread :
                  \E i \in 1..Len(args.thread) : re_match(args.thread[i], thread)
           /\ ~(Truthy(args.start_time) /\ DtLess(ix.max_datetime, args.start_time))
           /\ ~(Truthy(args.end_time) /\ DtLess(args.end_time, ix.min_datetime))

\* the response of /logs: jsonify(list(generate_logs())), or a 500 for an
\* exception out of the view
Response(s) ==
  IF s.exc = ""
  THEN [status |-> 200, type |-> "json", body |-> s.out]
  ELSE [status |-> 500, type |-> "error", body |-> <<s.exc>>]

\* a request to /logs: "Index not found" when there is no index, else the
\* loop of generate_logs over read_file of the files filter_file keeps
Logs(args) ==
  /\ pc = "idle"
  /\ pc' = "logs"
  /\ caller' = "logs"
  /\ reqargs' = args
  /\ IF ~IndexFound
     THEN /\ SetRun(NoRun)
          /\ resp' = [status |-> 200, type |-> "text", body |-> <<"Index not found">>]
     ELSE \E s \in {read_file(SelectSeq(path_to_files, LAMBDA file : filter_file(file, args)),
                                Truthy(args.start_time) \/ Truthy(args.end_time),
                                "logs", args)} :
            /\ SetRun(s)
            /\ resp' = Response(s)
  /\ UNCHANGED <<envVars, search_index>>

\* the same request to /logs once more, right after its response: resp keeps
\* the first response, the run is that of the second request
LogsAgain ==
  /\ pc = "logs"
  /\ pc' = "logs_again"
  /\ IF ~IndexFound
     THEN SetRun(NoRun)
     ELSE \E s \in {read_file(SelectSeq(path_to_files,
                                        LAMBDA file : filter_file(file, reqargs)),
                              Truthy(reqargs.start_time) \/ Truthy(reqargs.end_time),
                              "logs", reqargs)} :
            SetRun(s)
  /\ UNCHANGED <<envVars, search_index, caller, reqargs, resp>>

\* the response has been sent: the request and its locals are gone
LogsDone ==
  /\ pc \in {"logs", "logs_again"}
  /\ pc' = "idle"
  /\ caller' = "none"
  /\ reqargs' = None
  /\ resp' = None
  /\ SetRun(NoRun)
  /\ UNCHANGED <<envVars, search_index>>

(***************************************************************************)
(* The environment: the log files change while the server runs             *)
(***************************************************************************)
MaxWrites == 1

\* a logger appends a line to a log file
WriteSource(p, line) ==
  /\ pc = "idle"
  /\ writes < MaxWrites
  /\ writes' = writes + 1
  /\ fs' = [fs EXCEPT ![p].lines = Append(FileLines(p), line), ![p].repeat = 1]
  /\ UNCHANGED <<year, search_index, pc, caller, readerVars, callerVars, exc, resp>>

\* the permissions of a log file change
Chmod(p) ==
  /\ pc = "idle"
  /\ writes < MaxWrites
  /\ writes' = writes + 1
  /\ fs' = [fs EXCEPT ![p].readable = ~@]
  /\ UNCHANGED <<year, search_index, pc, caller, readerVars, callerVars, exc, resp>>

(***************************************************************************)
(* Inputs                                                                  *)
(***************************************************************************)
Years == {2024, 2025}

\* sequences over S of length at most n
SeqUpTo(S, n) == UNION {[1..k -> S] : k \in 0..n}

\* a file's lines end with a newline, except possibly the last one
WellFormedFile(lines) ==
  \A i \in 1..(Len(lines) - 1) : lines[i][Len(lines[i])] = "\n"

Idle ==
  /\ search_index = None
  /\ caller = "none"
  /\ files = <<>>
  /\ include_dt = FALSE
  /\ fidx = 1
  /\ lidx = 1
  /\ handles = {}
  /\ detail = None
  /\ should_concat_line = FALSE
  /\ rpc = "none"
  /\ index = <<>>
  /\ reqargs = None
  /\ result_count = 0
  /\ out = <<>>
  /\ exc = ""
  /\ resp = None
  /\ writes = 0

(***************************************************************************)
(* SpecParse: list(read_file(files, include_dt)) over every small input    *)
(***************************************************************************)
MaxLines == 2

ParseLines == {LineA, LineIndented, LineLeapDay, LineNoNewline, LineText}

ParseFiles == {l \in SeqUpTo(ParseLines, MaxLines) : WellFormedFile(l)}

InitParse ==
  /\ fs \in [Paths -> [lines : ParseFiles, repeat : {1}, readable : {TRUE}]]
  /\ year \in Years
  /\ pc = "start"
  /\ Idle

NextParse == \E dt \in BOOLEAN : CallReadFile(dt)

SpecParse == InitParse /\ [][NextParse]_vars

(***************************************************************************)
(* SpecSteps: list(read_file(files, include_dt)) one statement at a time   *)
(***************************************************************************)
MaxStepLines == 2

StepLines == {LineA, LineLeapDay, LineBracketComma, LineText}

StepFiles == SeqUpTo(StepLines, MaxStepLines)

InitSteps ==
  /\ fs \in [Paths -> [lines : StepFiles, repeat : {1}, readable : {TRUE}]]
  /\ year \in Years
  /\ pc = "start"
  /\ Idle

NextSteps ==
  \/ \E dt \in BOOLEAN : StartList(dt)
  \/ StepList
  \/ ListDone

SpecSteps == InitSteps /\ [][NextSteps]_vars

(***************************************************************************)
(* Spec: the web server.  init_index runs once, then /logs is requested    *)
(* any number of times while the log files may change.                     *)
(***************************************************************************)
Jan(day, yr) == <<yr, 1, day, 0, 0, 0, 0>>

FilterTimes(yr) == {None, Jan(1, yr), Jan(2, yr)}

MaxTotalLines == 2

ServerLines == {LineA, LineB, LineText}

ServerFiles ==
  {f \in [Paths -> SeqUpTo(ServerLines, MaxTotalLines)] :
     Len(f[1]) + Len(f[2]) <= MaxTotalLines}

WrittenLines == {LineA, LineLeapDay, LineText}

\* the Namespace logs() builds from the request: one thread pattern at most,
\* times in the current year
Requests(yr) ==
  [level : {None}, thread : {None, << <<"w", "$">> >>, << <<"w", "v">> >>},
   start_time : FilterTimes(yr), end_time : FilterTimes(yr), content : {None}]
  \cup
  [level : {None}, thread : {None, << <<"w", "$">> >>}, start_time : {None},
   end_time : {None}, content : {<<"x">>}]
  \cup
  [level : {<<"I">>}, thread : {None}, start_time : {None, Jan(1, yr)},
   end_time : {None}, content : {None}]

Init ==
  /\ \E f \in ServerFiles :
       \E r \in [Paths -> BOOLEAN] :
         fs = [p \in Paths |-> [lines |-> f[p], repeat |-> 1, readable |-> r[p]]]
  /\ year \in Years
  /\ pc = "boot"
  /\ Idle

Next ==
  \/ InitIndex
  \/ \E args \in Requests(year) : Logs(args)
  \/ LogsDone
  \/ LogsAgain
  \/ \E p \in Paths : \E line \in WrittenLines : WriteSource(p, line)
  \/ \E p \in Paths : Chmod(p)

Spec == Init /\ [][Next]_vars

(***************************************************************************)
(* SpecCap: the web server over log files long enough to reach the cap of  *)
(* generate_logs                                                           *)
(***************************************************************************)
ManyLines == 1001

\* the second log file: one header line written ManyLines times, or one or
\* two times fewer
LongFiles ==
  {[lines |-> <<LineA>>, repeat |-> n, readable |-> TRUE] :
     n \in (ManyLines - 2)..ManyLines}

\* the first log file
ShortFiles ==
  {[lines |-> l, repeat |-> 1, readable |-> TRUE] :
     l \in {<<>>, <<LineA>>, <<LineB>>, <<LineText, LineA>>,
            <<LineA, LineText, LineB, LineA>>}}

CapRequests(yr) ==
  [level : {None}, thread : {None, << <<"w", "$">> >>, << <<"w", "v">> >>},
   start_time : {None}, end_time : {None}, content : {None}]
  \cup
  [level : {None}, thread : {None}, start_time : {Jan(1, yr)},
   end_time : {None, Jan(1, yr)}, content : {None}]
  \cup
  [level : {None}, thread : {None}, start_time : {None, Jan(2, yr)},
   end_time : {Jan(2, yr)}, content : {None}]

InitCap ==
  /\ \E long \in LongFiles :
       \E short \in ShortFiles :
         fs = [p \in Paths |-> IF p = 1 THEN short ELSE long]
  /\ year = 2025
  /\ pc = "boot"
  /\ Idle

NextCap ==
  \/ InitIndex
  \/ \E args \in CapRequests(year) : Logs(args)
  \/ LogsDone

SpecCap == InitCap /\ [][NextCap]_vars

(***************************************************************************)
(* SpecFilter: filter_detail applied to one record and one Namespace       *)
(***************************************************************************)
FilterLevels == {None, <<"I">>, <<"W">>}

FilterThreads == {None, << <<"w">> >>, << <<"w", "$">> >>, << <<"v">>, <<"w", "v">> >>}

FilterContents == {None, <<"x">>, <<"x", "$">>}

Namespaces(yr) ==
  [level : FilterLevels, thread : FilterThreads, start_time : FilterTimes(yr),
   end_time : FilterTimes(yr), content : FilterContents]

\* the records read_file builds from a header line of the model, alone or
\* followed by a non-header line
DetailsOf(include, yr) ==
  LET heads == {l \in Lines : pattern[l] # None /\ materialize_dt(include, yr, pattern[l].dt) # None}
      new(l) == NewDetail(1, pattern[l], materialize_dt(include, yr, pattern[l].dt), l)
  IN  {new(l) : l \in heads} \cup {ConcatLine(new(l), LineText) : l \in heads}

InitFilter ==
  /\ year \in Years
  /\ reqargs \in Namespaces(year)
  /\ detail \in DetailsOf(Truthy(reqargs.start_time) \/ Truthy(reqargs.end_time), year)
  /\ pc = "filter"
  /\ fs = [p \in Paths |-> [lines |-> <<>>, repeat |-> 1, readable |-> TRUE]]
  /\ search_index = None
  /\ caller = "none"
  /\ files = <<>>
  /\ include_dt = (Truthy(reqargs.start_time) \/ Truthy(reqargs.end_time))
  /\ fidx = 1
  /\ lidx = 1
  /\ handles = {}
  /\ should_concat_line = FALSE
  /\ rpc = "none"
  /\ index = <<>>
  /\ result_count = 0
  /\ out = <<>>
  /\ exc = ""
  /\ resp = None
  /\ writes = 0

\* filter_detail(detail, args)
FilterDetail ==
  /\ pc = "filter"
  /\ pc' = "filtered"
  /\ resp' = filter_detail(detail, reqargs)
  /\ UNCHANGED <<envVars, search_index, caller, readerVars, callerVars, exc>>

NextFilter == FilterDetail

SpecFilter == InitFilter /\ [][NextFilter]_vars

(***************************************************************************)
(* The input as the claims describe it: the header lines of a file, and    *)
(* the region of the file a header line owns (the header line and the      *)
(* lines after it, up to the next header line or the end of the file)      *)
(***************************************************************************)
IsHeader(line) == pattern[line] # None

HeaderPositions(lines) ==
  SelectSeq([i \in 1..Len(lines) |-> i], LAMBDA i : IsHeader(lines[i]))

\* the last line of the region of the k-th header line (H: the header lines)
RegionEnd(lines, H, k) == IF k < Len(H) THEN H[k + 1] - 1 ELSE Len(lines)

RECURSIVE Join(_, _, _)
\* lines[a] \o ... \o lines[b]
Join(lines, a, b) ==
  IF a > b THEN <<>>
  ELSE IF a = b THEN lines[a]
  ELSE LET mid == (a + b) \div 2
       IN  Join(lines, a, mid) \o Join(lines, mid + 1, b)

RECURSIVE Flatten(_)
Flatten(ss) == IF ss = <<>> THEN <<>> ELSE Head(ss) \o Flatten(Tail(ss))

\* the regions of the files of a list, in stream order
Regions(fileList) ==
  Flatten([f \in 1..Len(fileList) |->
             LET lines == FileLines(fileList[f])
                 H == HeaderPositions(lines)
             IN  [k \in 1..Len(H) |->
                    [fileIdx |-> f, file |-> fileList[f], header |-> H[k],
                     last |-> RegionEnd(lines, H, k)]]])

\* the text of a region
RegionText(r) == Join(FileLines(r.file), r.header, r.last)

\* the timestamp text of the header line of a region
HeaderDt(r) == pattern[LineAt(r.file, r.header)].dt

\* the header lines, by stream position, whose timestamp text is not a valid
\* calendar timestamp in the current year
Malformed(R) == {k \in 1..Len(R) : fromisoformat(year, HeaderDt(R[k])) = None}

(***************************************************************************)
(* read_file as a function of its input: the records a caller that never   *)
(* leaves the loop receives, and the exception that ends the pass, if any  *)
(***************************************************************************)
\* the record read_file builds for a region: NewDetail on the header line,
\* then ConcatLine for each line after it
RecordOf(r, include) ==
  LET lines == FileLines(r.file)
      line == lines[r.header]
      m == pattern[line]
      d == NewDetail(r.file, m, materialize_dt(include, year, m.dt), line)
      rest == Join(lines, r.header + 1, r.last)
  IN  [d EXCEPT !.content = @ \o rest, !.raw = @ \o rest]

FullPass(fileList, include) ==
  LET R == Regions(fileList)
      U == {f \in 1..Len(fileList) : ~fs[fileList[f]].readable}
      u == IF U = {} THEN Len(fileList) + 1 ELSE SetMin(U)
      B == IF include THEN {k \in Malformed(R) : R[k].fileIdx < u} ELSE {}
      before == Cardinality({k \in 1..Len(R) : R[k].fileIdx < u})
      \* a ValueError comes after the yield of the record before it; an OSError
      \* leaves the record under construction unyielded
      n == IF B # {} THEN SetMin(B) - 1
           ELSE IF U # {} THEN Max(before - 1, 0)
           ELSE Len(R)
  IN  [records |-> [k \in 1..n |-> RecordOf(R[k], include)],
       exc |-> IF B # {} THEN "ValueError" ELSE IF U # {} THEN "OSError" ELSE ""]

\* the generator and the function agree
ReadFileIsFullPass ==
  (pc = "done" /\ rpc \in {"returned", "raised"}) =>
    /\ out = FullPass(files, include_dt).records
    /\ exc = FullPass(files, include_dt).exc

(***************************************************************************)
(* C1                                                                      *)
(***************************************************************************)
\* C1 (as claimed): when read_file has run to its end, the raw of the record
\* yielded for each header line is the exact text of the header line and the
\* non-header lines that follow it, character for character.
C1_RawIsExactInput ==
  (pc = "done" /\ exc = "") =>
    LET R == Regions(files)
    IN  /\ Len(out) = Len(R)
        /\ \A k \in 1..Len(R) : out[k].raw = RegionText(R[k])

(***************************************************************************)
(* C9                                                                      *)
(***************************************************************************)
\* C9: with timestamps requested, read_file ends in ValueError at the first
\* header line whose timestamp is not a calendar timestamp: the records of the
\* header lines before it, and no others, have been yielded; without
\* timestamps requested the same input raises nothing.
C9_MalformedTimestampPropagates ==
  pc = "done" =>
    LET R == Regions(files)
    IN  /\ (include_dt /\ Malformed(R) # {}) =>
             /\ exc = "ValueError"
             /\ Len(out) = SetMin(Malformed(R)) - 1
             /\ \A k \in 1..Len(out) :
                  /\ out[k].filename = R[k].file
                  /\ out[k].dt = fromisoformat(year, HeaderDt(R[k]))
        /\ ~include_dt => exc = ""

\* a record was yielded, then a later header line had a malformed timestamp
C9_Witness ==
  /\ pc = "done"
  /\ include_dt
  /\ exc = "ValueError"
  /\ Len(out) > 0
  /\ Malformed(Regions(files)) # {}

(***************************************************************************)
(* C7                                                                      *)
(***************************************************************************)
\* C7 (as claimed): with a level given, filter_detail returns a boolean and
\* does not raise, and it returns True only for a record whose level is the
\* level given.
C7_LevelNeverRaises ==
  (pc = "filtered" /\ Truthy(reqargs.level)) =>
    /\ ~resp.raised
    /\ resp.value => detail.level = reqargs.level

(***************************************************************************)
(* C10                                                                     *)
(***************************************************************************)
Criteria == {"level", "thread", "start_time", "end_time", "content"}

Without(args, c) == [args EXCEPT ![c] = None]

\* C10: a Namespace with no criterion matches every record, and a record that
\* matches still matches when any one criterion is removed.
C10_AbsentCriterionNeverExcludes ==
  pc = "filtered" =>
    /\ (\A c \in Criteria : reqargs[c] = None) => resp = Return(TRUE)
    /\ resp = Return(TRUE) =>
         \A c \in Criteria : filter_detail(detail, Without(reqargs, c)) = Return(TRUE)

\* a record matched a Namespace with a thread, a time and a content criterion
C10_Witness ==
  /\ pc = "filtered"
  /\ resp = Return(TRUE)
  /\ Truthy(reqargs.thread)
  /\ Truthy(reqargs.start_time)
  /\ Truthy(reqargs.content)

(***************************************************************************)
(* The end of a request to /logs, as the claims describe it                *)
(***************************************************************************)
\* the view has returned
QueryEnded == pc = "logs"

\* the records the client receives
Returned == IF resp.type = "json" THEN resp.body ELSE <<>>

\* bounded mode: start_time and end_time are not both given
Bounded(args) == ~(Truthy(args.start_time) /\ Truthy(args.end_time))

Matches(d, args) == filter_detail(d, args) = Return(TRUE)

Matching(records, args) == SelectSeq(records, LAMBDA d : Matches(d, args))

Range(seq) == {seq[i] : i \in 1..Len(seq)}

WantsDt(args) == Truthy(args.start_time) \/ Truthy(args.end_time)

(***************************************************************************)
(* C2                                                                      *)
(***************************************************************************)
\* C2: in bounded mode generate_logs yields the first min(M, 1000) of the
\* matching records of the candidate files, in stream order, M being the
\* number of matching records that read_file delivers for those files.
C2_BoundedModeCap ==
  (QueryEnded /\ Bounded(reqargs)) =>
    LET M == Matching(FullPass(files, include_dt).records, reqargs)
    IN  out = [k \in 1..Min(Len(M), ResultCap) |-> to_dict(M[k])]

\* a bounded query over more than 1000 matching records has ended
C2_Witness ==
  /\ QueryEnded
  /\ Bounded(reqargs)
  /\ Len(Matching(FullPass(files, include_dt).records, reqargs)) > ResultCap
  /\ Len(out) = ResultCap

(***************************************************************************)
(* C3                                                                      *)
(***************************************************************************)
\* C3: with start_time and end_time both given generate_logs yields every
\* matching record that read_file delivers for the candidate files, in stream
\* order, however many there are.
C3_UnboundedModeNoCap ==
  (QueryEnded /\ ~Bounded(reqargs)) =>
    LET M == Matching(FullPass(files, include_dt).records, reqargs)
    IN  out = [k \in 1..Len(M) |-> to_dict(M[k])]

\* a query with both time bounds has yielded more than 1000 records
C3_Witness ==
  /\ QueryEnded
  /\ ~Bounded(reqargs)
  /\ exc = ""
  /\ Len(out) > ResultCap

(***************************************************************************)
(* C4                                                                      *)
(***************************************************************************)
\* the records the client receives from the query run over a file list
QueryOver(fileList, args) ==
  LET P == FullPass(fileList, WantsDt(args))
      M == Matching(P.records, args)
      capped == Bounded(args) /\ Len(M) > ResultCap
      raises == \/ Truthy(args.level) /\ Len(P.records) > 0
                \/ P.exc # "" /\ ~capped
  IN  IF raises THEN <<>>
      ELSE [k \in 1..(IF capped THEN ResultCap ELSE Len(M)) |-> to_dict(M[k])]

\* the log files are as they were when init_index read them
SourcesUnchanged == writes = 0

Removable(p, args) ==
  LET e == search_index[p]
  IN  \/ /\ Truthy(args.thread)
         /\ \A label \in e.thread :
              \A i \in 1..Len(args.thread) : ~re_match(args.thread[i], label)
      \/ Truthy(args.start_time) /\ DtLess(e.max_datetime, args.start_time)
      \/ Truthy(args.end_time) /\ DtLess(args.end_time, e.min_datetime)

\* C5: a file with an index entry is dropped from the candidate list exactly
\* when no thread pattern matches any of its thread labels, or its latest
\* timestamp is before start_time, or its earliest timestamp is after end_time.
C5_PrunedExactlyWhenRuledOut ==
  (pc = "logs" /\ rpc # "none") =>
    \A p \in DOMAIN search_index :
      p \notin Range(files) <=> Removable(p, reqargs)

\* a file whose span touches start_time is kept while another file is dropped
C5_Witness ==
  /\ pc = "logs"
  /\ rpc # "none"
  /\ \E p \in DOMAIN search_index :
       /\ p \in Range(files)
       /\ search_index[p].max_datetime = reqargs.start_time
  /\ \E q \in DOMAIN search_index : q \notin Range(files)

(***************************************************************************)
(* C6                                                                      *)
(***************************************************************************)
\* C6 (as claimed): whatever the index holds, a file without an index entry is
\* a candidate of the query and its matching records are returned.
C6_FailOpen ==
  (QueryEnded /\ exc = "") =>
    \A p \in Paths \ DOMAIN search_index :
      \A d \in Range(FullPass(<<p>>, WantsDt(reqargs)).records) :
        Matches(d, reqargs) => (p \in Range(files) /\ to_dict(d) \in Range(Returned))

(***************************************************************************)
(* C8                                                                      *)
(***************************************************************************)
\* C8 (as claimed): when a candidate file cannot be opened the query does not
\* abort, and the matching records of the files that can be opened are
\* returned.
C8_UnreadableSourceSkipped ==
  (QueryEnded /\ ~Truthy(reqargs.level)
     /\ \E i \in 1..Len(files) : ~fs[files[i]].readable) =>
    /\ resp.status = 200
    /\ \A i \in 1..Len(files) :
         fs[files[i]].readable =>
           \A d \in Range(FullPass(<<files[i]>>, include_dt).records) :
             Matches(d, reqargs) => to_dict(d) \in Range(Returned)

(***************************************************************************)
(* C11                                                                     *)
(***************************************************************************)
\* the lines of a file before its first header line
Orphans(p) ==
  LET lines == FileLines(p)
      H == HeaderPositions(lines)
  IN  IF H = <<>> THEN 1..Len(lines) ELSE 1..(H[1] - 1)

\* the text read_file appends to the record of a region: the lines of the
\* region after its header line
Continuation(r) == Join(FileLines(r.file), r.header + 1, r.last)

\* C11: when read_file has run to its end there is one record per header
\* line, and the content and the raw of a record are the content and the
\* stripped text of its header line followed by the lines of its own file up
\* to the next header line: a line before the first header line of its file is
\* in no record, also when the file before left a record under construction.
C11_OrphanLinesDropped ==
  (pc = "done" /\ exc = "") =>
    LET R == Regions(files)
    IN  /\ Len(out) = Len(R)
        /\ \A k \in 1..Len(R) :
             LET line == LineAt(R[k].file, R[k].header)
             IN  /\ out[k].content = pattern[line].content \o Continuation(R[k])
                 /\ out[k].raw = strip(line) \o Continuation(R[k])

\* the first file ends in a record under construction and the second starts
\* with an orphan line followed by one header line: two records
C11_Witness ==
  /\ pc = "done"
  /\ exc = ""
  /\ Len(files) = 2
  /\ HeaderPositions(FileLines(files[1])) # <<>>
  /\ Orphans(files[2]) # {}
  /\ Len(HeaderPositions(FileLines(files[2]))) = 1
  /\ Len(out) = Len(HeaderPositions(FileLines(files[1]))) + 1

(***************************************************************************)
(* C12                                                                     *)
(***************************************************************************)
\* the record d is the record of the header line of the region r
IsRecordOfHeader(d, r) ==
  LET m == pattern[LineAt(r.file, r.header)]
  IN  /\ d.filename = r.file
      /\ d.level = m.lv
      /\ d.thread = m.thread
      /\ d.dt = m.dt
      /\ SubSeq(d.content, 1, Len(m.content)) = m.content

\* C12: without timestamps requested read_file raises nothing and yields one
\* record per header line, the k-th record being the record of the k-th header
\* line in the order (position of the file in the list, position of the line
\* in the file), with the file of the header line as its filename; files
\* without a header line yield nothing.
C12_OneRecordPerHeaderInOrder ==
  (pc = "done" /\ ~include_dt) =>
    LET R == Regions(files)
    IN  /\ exc = ""
        /\ Len(out) = Len(R)
        /\ \A k \in 1..Len(R) : IsRecordOfHeader(out[k], R[k])

\* both files hold header lines and the three records or more came out
C12_Witness ==
  /\ pc = "done"
  /\ ~include_dt
  /\ Len(out) >= 3
  /\ out[1].filename # out[Len(out)].filename

(***************************************************************************)
(* C13                                                                     *)
(***************************************************************************)
\* the timestamp of the record is strictly outside the window of the Namespace
StrictlyOutside(d, args) ==
  \/ args.start_time # None /\ DtLess(d.dt, args.start_time)
  \/ args.end_time # None /\ DtLess(args.end_time, d.dt)

\* C13: a record that matches is not strictly outside the window, and when
\* the time bounds are the only criteria a record matches exactly when it is
\* not strictly outside the window: a timestamp equal to start_time or to
\* end_time matches.
C13_InclusiveTimeWindow ==
  (pc = "filtered" /\ reqargs.level = None) =>
    /\ resp = Return(TRUE) => ~StrictlyOutside(detail, reqargs)
    /\ (reqargs.thread = None /\ reqargs.content = None) =>
         resp = Return(~StrictlyOutside(detail, reqargs))

\* a record whose timestamp equals both bounds of the window has matched
C13_Witness ==
  /\ pc = "filtered"
  /\ reqargs.start_time # None
  /\ detail.dt = reqargs.start_time
  /\ detail.dt = reqargs.end_time
  /\ resp = Return(TRUE)

(***************************************************************************)
(* C18                                                                     *)
(***************************************************************************)
\* the thread criterion: no pattern, or a pattern that matches the thread
ThreadPasses(d, args) ==
  \/ args.thread = None
  \/ \E pat \in Range(args.thread) : re_match(pat, d.thread)

\* the content criterion: no pattern, or the pattern found in the content
ContentPasses(d, args) ==
  args.content = None \/ re_search(args.content, d.content)

\* C18: without a level filter_detail returns the conjunction of the thread
\* criterion, the time window and the content criterion, the thread criterion
\* being passed as soon as one of the thread patterns matches.
C18_ConjunctionOfCriteria ==
  (pc = "filtered" /\ reqargs.level = None) =>
    resp = Return(/\ ThreadPasses(detail, reqargs)
                  /\ ~StrictlyOutside(detail, reqargs)
                  /\ ContentPasses(detail, reqargs))

\* a record has matched a Namespace of which one thread pattern matches its
\* thread and another does not
C18_Witness ==
  /\ pc = "filtered"
  /\ resp = Return(TRUE)
  /\ reqargs.thread # None
  /\ \E pat \in Range(reqargs.thread) : re_match(pat, detail.thread)
  /\ \E pat \in Range(reqargs.thread) : ~re_match(pat, detail.thread)

(***************************************************************************)
(* C17                                                                     *)
(***************************************************************************)
\* the timestamps and the thread labels of the records of a file
TimestampsOf(p) ==
  {fromisoformat(year, HeaderDt(r)) : r \in Range(Regions(<<p>>))}

ThreadsOf(p) ==
  {pattern[LineAt(r.file, r.header)].thread : r \in Range(Regions(<<p>>))}

\* C17: after init_index, over the files as it read them, the index has an
\* entry for exactly the files with a header line; the min_datetime of an
\* entry is the least and its max_datetime the greatest of the timestamps of
\* the records of the file, and its thread set is the set of their threads.
C17_IndexSummarisesSources ==
  (pc \in {"idle", "logs"} /\ SourcesUnchanged) =>
    /\ DOMAIN search_index = {p \in Paths : TimestampsOf(p) # {}}
    /\ \A p \in DOMAIN search_index :
         LET e == search_index[p]
         IN  /\ e.min_datetime \in TimestampsOf(p)
             /\ e.max_datetime \in TimestampsOf(p)
             /\ \A t \in TimestampsOf(p) :
                  ~DtLess(t, e.min_datetime) /\ ~DtLess(e.max_datetime, t)
             /\ e.thread = ThreadsOf(p)

\* the index holds an entry whose span is more than one instant and whose
\* thread set has two labels, and a file without a header line has no entry
C17_Witness ==
  /\ pc = "idle"
  /\ SourcesUnchanged
  /\ \E p \in DOMAIN search_index :
       /\ DtLess(search_index[p].min_datetime, search_index[p].max_datetime)
       /\ Cardinality(search_index[p].thread) = 2
  /\ \E q \in Paths : q \notin DOMAIN search_index

(***************************************************************************)
(* C14                                                                     *)
(***************************************************************************)
\* the response to the second of two identical requests
SecondResponse ==
  IF rpc = "none"
  THEN [status |-> 200, type |-> "text", body |-> <<"Index not found">>]
  ELSE Response([out |-> out, exc |-> exc])

HeadersBefore(j) ==
  Cardinality({k \in 1..Len(Regions(files)) : Regions(files)[k].fileIdx < j})

\* C15 (as claimed): while a file of the list is open, the records of all the
\* header lines of the files before it have been yielded.
C15_LastRecordBeforeNextSource ==
  (pc = "list" /\ rpc = "for_line") => Len(out) >= HeadersBefore(fidx)

(***************************************************************************)
(* C16                                                                     *)
(***************************************************************************)
\* C16: read_file holds one file open at most, the file at the position it
\* stands at in the list; it opens a file only when none is open, and it moves
\* to the next position of the list only when every line of the file has been
\* read, closing the file as it does.
C16_OneHandleInListOrder ==
  [][pc = "list" =>
       /\ Cardinality(handles') <= 1
       /\ handles' # {} => (fidx' <= Len(files') /\ handles' = {files'[fidx']})
       /\ (handles' # handles /\ handles' # {}) => handles = {}
       /\ fidx' # fidx =>
            /\ fidx' = fidx + 1
            /\ lidx > NumLines(files[fidx])
            /\ handles = {files[fidx]}
            /\ handles' = {}]_vars

\* the second file of the list is open and has been read in part, after the
\* first, which had lines, was closed
C16_Witness ==
  /\ pc = "list"
  /\ fidx = 2
  /\ handles = {files[2]}
  /\ lidx > 1
  /\ NumLines(files[1]) > 0

(***************************************************************************)
(* C19                                                                     *)
(***************************************************************************)
\* C19 (as claimed): no record that read_file yields has a thread with a comma
\* or a closing bracket in it.
C19_ThreadWithoutCommaOrBracket ==
  pc = "done" =>
    \A k \in 1..Len(out) :
      /\ "," \notin Range(out[k].thread)
      /\ "]" \notin Range(out[k].thread)

====
